---- MODULE Spec2Model ----
(***************************************************************************)
(* Model of tfind (src/tfind.py): the time-range extraction engine.        *)
(*                                                                         *)
(* Strings are sequences of one-character strings; a file is the sequence  *)
(* of its bytes, "\n" being the line terminator.  Offsets of the code are  *)
(* 0-based byte offsets; the byte at offset o is file[o+1].                *)
(* An optional value (Python's None) is the empty sequence, a present      *)
(* value x is <<x>>; an optional string is the string itself, the code     *)
(* testing it only with `not ts_text`.                                     *)
(* The functions of the code are functions here (f[x]), so that an         *)
(* argument is evaluated once, as in the code.                             *)
(***************************************************************************)
EXTENDS Integers, Sequences, FiniteSets, TLC

VARIABLES
    file,             \* bytes of the log file at `path`
    start_s, end_s,   \* the two user bounds, as typed
    dateutil_parser,  \* TRUE iff the optional dateutil import succeeded
    today,            \* [y, m, d]: the date of the run (dateutil's default date)
    pc,               \* position of print_range
    start_dt, end_dt, \* optional datetimes
    user_pat,         \* optional learned matcher
    date_anchor,      \* optional day number
    low, hi,          \* binary_search_start's window
    bs_iter,          \* what the last iteration of the binary search did
    start_pos,        \* offset handed to the streaming pass
    fpos,             \* read position of the streaming pass
    out,              \* standard output: the chunks written, each [pos, text]
    err,              \* standard error
    exit_code,        \* process exit status (-1 while running)
    stop_cause,       \* why the streaming loop ended
    example,          \* PatternLearner harness: the example string
    pl_pat,           \* PatternLearner harness: optional learned matcher
    pl_match,         \* PatternLearner harness: optional captured group
    pl_pc             \* PatternLearner harness: position

runVars == <<file, start_s, end_s, dateutil_parser, today, pc, start_dt, end_dt,
             user_pat, date_anchor, low, hi, bs_iter, start_pos, fpos, out, err,
             exit_code, stop_cause>>
plVars == <<example, pl_pat, pl_match, pl_pc>>
vars == <<file, start_s, end_s, dateutil_parser, today, pc, start_dt, end_dt,
          user_pat, date_anchor, low, hi, bs_iter, start_pos, fpos, out, err,
          exit_code, stop_cause, example, pl_pat, pl_match, pl_pc>>

(***************************************************************************)
(* Bounds of the model.                                                    *)
(***************************************************************************)
MaxLines == 3
MaxExampleLen == 3

None == <<>>
Some(x) == <<x>>

Max(S) == CHOOSE x \in S : \A y \in S : y <= x
Min(S) == CHOOSE x \in S : \A y \in S : x <= y

(***************************************************************************)
(* Characters and strings.                                                 *)
(***************************************************************************)
Str == Seq(STRING)

Digits == <<"0", "1", "2", "3", "4", "5", "6", "7", "8", "9">>
LowerLetters == <<"a", "b", "c", "d", "e", "f", "g", "h", "i", "j", "k", "l", "m",
                  "n", "o", "p", "q", "r", "s", "t", "u", "v", "w", "x", "y", "z">>
UpperLetters == <<"A", "B", "C", "D", "E", "F", "G", "H", "I", "J", "K", "L", "M",
                  "N", "O", "P", "Q", "R", "S", "T", "U", "V", "W", "X", "Y", "Z">>

DigitSet == {Digits[i] : i \in 1..10}
LetterSet == {LowerLetters[i] : i \in 1..26} \cup {UpperLetters[i] : i \in 1..26}

IsDigit(c) == c \in DigitSet
IsAlpha(c) == c \in LetterSet
IsSpace(c) == c \in {" ", "\n", "\t"}
IsWord(c) == IsDigit(c) \/ IsAlpha(c) \/ c = "_"

DigitVal(c) == (CHOOSE i \in 1..10 : Digits[i] = c) - 1
Lower(c) ==
    IF \E i \in 1..26 : UpperLetters[i] = c
    THEN LowerLetters[CHOOSE i \in 1..26 : UpperLetters[i] = c]
    ELSE c

\* int(s) for a string of digits
ToInt[s \in Str] ==
    IF s = <<>> THEN 0 ELSE ToInt[SubSeq(s, 1, Len(s) - 1)] * 10 + DigitVal(s[Len(s)])

AllDigits(s) == \A i \in 1..Len(s) : IsDigit(s[i])

\* s[a:b] with 0-based Python slice indices
Slice(s, a, b) == SubSeq(s, a + 1, b)

\* s.strip()
Strip[s \in Str] ==
    IF \A i \in 1..Len(s) : IsSpace(s[i]) THEN <<>>
    ELSE SubSeq(s, Min({i \in 1..Len(s) : ~IsSpace(s[i])}),
                   Max({i \in 1..Len(s) : ~IsSpace(s[i])}))

(***************************************************************************)
(* Regular expressions.  A matcher is a sequence of atoms, each a          *)
(* character class repeated lo..hi times (hi = Unbounded for `+`), matched *)
(* greedily with backtracking as Python's re does.  Positions are 1-based  *)
(* indices of the next character to consume; 0 is "no match".              *)
(***************************************************************************)
Unbounded == 0 - 1

Atoms == [cls : STRING, ch : STRING, lo : Int, hi : Int]
Pattern == Seq(Atoms)

Atom(cls, ch, lo_, hi_) == [cls |-> cls, ch |-> ch, lo |-> lo_, hi |-> hi_]

AtomAccepts(a, c) ==
    CASE a.cls = "digit" -> IsDigit(c)
      [] a.cls = "alpha" -> IsAlpha(c)
      [] a.cls = "space" -> IsSpace(c)
      [] OTHER -> c = a.ch

\* the longest run (at least n) of characters a accepts from position p,
\* capped by a.hi
RunLen[a \in Atoms, s \in Str, p \in Nat, n \in Nat] ==
    IF (a.hi # Unbounded /\ n >= a.hi) \/ p + n > Len(s) \/ ~AtomAccepts(a, s[p + n])
    THEN n
    ELSE RunLen[a, s, p, n + 1]

\* atoms k.. can match s from position p
CanMatch[atoms \in Pattern, k \in Nat, s \in Str, p \in Nat] ==
    \/ k > Len(atoms)
    \/ /\ k <= Len(atoms)
       /\ \E n \in atoms[k].lo..RunLen[atoms[k], s, p, 0] : CanMatch[atoms, k + 1, s, p + n]

\* the largest count <= n of atom k after which the rest matches (greedy)
BestCount[atoms \in Pattern, k \in Nat, s \in Str, p \in Nat, n \in Nat] ==
    IF n <= atoms[k].lo \/ CanMatch[atoms, k + 1, s, p + n] THEN n
    ELSE BestCount[atoms, k, s, p, n - 1]

\* the end of the match the backtracking engine finds first, given one exists
PreferredEnd[atoms \in Pattern, k \in Nat, s \in Str, p \in Nat] ==
    IF k > Len(atoms) THEN p
    ELSE PreferredEnd[atoms, k + 1, s,
                      p + BestCount[atoms, k, s, p, RunLen[atoms[k], s, p, 0]]]

\* the position after the match of atoms k.. at p, 0 when there is none
MatchAtoms[atoms \in Pattern, k \in Nat, s \in Str, p \in Nat] ==
    IF CanMatch[atoms, k, s, p] THEN PreferredEnd[atoms, k, s, p] ELSE 0

\* Pattern.search of the matcher compiled at src/tfind.py:105, \[?(core)\]?,
\* tried at position i: the optional bracket is greedy.  The result is the
\* span <<first, next>> of group 1, or <<>>.
GroupAt[core \in Pattern, s \in Str, i \in Nat] ==
    IF i <= Len(s) /\ s[i] = "[" /\ CanMatch[core, 1, s, i + 1]
    THEN <<i + 1, PreferredEnd[core, 1, s, i + 1]>>
    ELSE IF CanMatch[core, 1, s, i] THEN <<i, PreferredEnd[core, 1, s, i]>>
    ELSE <<>>

SearchFrom[core \in Pattern, s \in Str, i \in Nat] ==
    IF i > Len(s) + 1 THEN <<>>
    ELSE IF GroupAt[core, s, i] # <<>> THEN GroupAt[core, s, i]
    ELSE SearchFrom[core, s, i + 1]

\* m.group(1) of user_pattern.search(line); <<>> when there is no match
SearchGroup[core \in Pattern, s \in Str] ==
    IF SearchFrom[core, s, 1] = <<>> THEN <<>>
    ELSE SubSeq(s, SearchFrom[core, s, 1][1], SearchFrom[core, s, 1][2] - 1)

(***************************************************************************)
(* Process-wide matchers, src/tfind.py:32-34 and 58-62.                    *)
(***************************************************************************)
Months == {<<"j", "a", "n">>, <<"f", "e", "b">>, <<"m", "a", "r">>, <<"a", "p", "r">>,
           <<"m", "a", "y">>, <<"j", "u", "n">>, <<"j", "u", "l">>, <<"a", "u", "g">>,
           <<"s", "e", "p">>, <<"o", "c", "t">>, <<"n", "o", "v">>, <<"d", "e", "c">>}

MonthAt(s, i) ==
    /\ i + 2 <= Len(s)
    /\ <<Lower(s[i]), Lower(s[i + 1]), Lower(s[i + 2])>> \in Months

\* MONTH_RE.search(s) is not None
MONTH_RE_search[s \in Str] == \E i \in 1..Len(s) : MonthAt(s, i)

\* MONTH_RE.fullmatch(word): a month abbreviation, then [a-z]* under re.I
MONTH_RE_fullmatch[word \in Str] ==
    /\ MonthAt(word, 1)
    /\ \A i \in 4..Len(word) : IsAlpha(word[i])

\* \b at position i (between s[i-1] and s[i])
WordBoundary(s, i) ==
    (i > 1 /\ IsWord(s[i - 1])) # (i <= Len(s) /\ IsWord(s[i]))

\* re.search(r"\b\d{4}\b", s)
HasYear[s \in Str] ==
    \E i \in 1..Len(s) :
        /\ i + 3 <= Len(s)
        /\ \A k \in i..(i + 3) : IsDigit(s[k])
        /\ WordBoundary(s, i)
        /\ WordBoundary(s, i + 4)

\* re.search(r"\b\d{1,2}[\-/]\d{1,2}\b", s)
HasDayMonth[s \in Str] ==
    \E i \in 1..Len(s) : \E a \in 1..2 : \E b \in 1..2 :
        /\ i + a + b <= Len(s)
        /\ WordBoundary(s, i)
        /\ \A k \in i..(i + a - 1) : IsDigit(s[k])
        /\ s[i + a] \in {"-", "/"}
        /\ \A k \in (i + a + 1)..(i + a + b) : IsDigit(s[k])
        /\ WordBoundary(s, i + a + b + 1)

\* re.search(r"\d{1,2}:\d{2}", s)
HasClock[s \in Str] ==
    \E i \in 1..Len(s) :
        /\ i + 3 <= Len(s)
        /\ IsDigit(s[i])
        /\ s[i + 1] = ":"
        /\ IsDigit(s[i + 2])
        /\ IsDigit(s[i + 3])

input_is_time_only[s \in Str] ==
    LET has_time == HasClock[s]
        has_year == HasYear[s]
        has_month_day == HasDayMonth[s] \/ MONTH_RE_search[s]
    IN  has_time /\ ~(has_year \/ has_month_day)

\* TIME_CORE_RE = \d{1,2}:\d{2}:\d{2}(?:\.\d{1,6})?
TimeCoreBase == <<Atom("digit", "", 1, 2), Atom("lit", ":", 1, 1), Atom("digit", "", 2, 2),
                  Atom("lit", ":", 1, 1), Atom("digit", "", 2, 2)>>
TimeCoreFrac == <<Atom("lit", ".", 1, 1), Atom("digit", "", 1, 6)>>

\* the end of the optional fraction tried at position b
TimeCoreEnd[s \in Str, b \in Nat] ==
    IF CanMatch[TimeCoreFrac, 1, s, b] THEN PreferredEnd[TimeCoreFrac, 1, s, b] ELSE b

\* the span <<first, next>> of TIME_CORE_RE matched at i, or <<>>
TimeCoreAt[s \in Str, i \in Nat] ==
    IF CanMatch[TimeCoreBase, 1, s, i]
    THEN <<i, TimeCoreEnd[s, PreferredEnd[TimeCoreBase, 1, s, i]]>>
    ELSE <<>>

TimeCoreFrom[s \in Str, i \in Nat] ==
    IF i > Len(s) THEN <<>>
    ELSE IF CanMatch[TimeCoreBase, 1, s, i] THEN TimeCoreAt[s, i]
    ELSE TimeCoreFrom[s, i + 1]

TIME_CORE_RE_search[s \in Str] == TimeCoreFrom[s, 1]

(***************************************************************************)
(* PatternLearner, src/tfind.py:64-105.                                    *)
(***************************************************************************)
\* escape_lit followed by the later replace(' ', r"\s+"): a space becomes
\* one-or-more whitespace, any other character stands for itself.
escape_lit(ch) ==
    IF ch = " " THEN Atom("space", "", 1, Unbounded) ELSE Atom("lit", ch, 1, 1)

\* the 0-based index j where the run of letters (digits) reaching j ends
AlphaRunEnd[s \in Str, j \in Nat] ==
    IF j < Len(s) /\ IsAlpha(s[j + 1]) THEN AlphaRunEnd[s, j + 1] ELSE j
DigitRunEnd[s \in Str, j \in Nat] ==
    IF j < Len(s) /\ IsDigit(s[j + 1]) THEN DigitRunEnd[s, j + 1] ELSE j

\* the while loop of lines 77-103, i a 0-based index into s
Tokens[s \in Str, i \in Nat] ==
    IF i >= Len(s) THEN <<>>
    ELSE IF IsAlpha(s[i + 1]) THEN
        <<IF MONTH_RE_fullmatch[Slice(s, i, AlphaRunEnd[s, i])]
          THEN Atom("alpha", "", 3, 9)
          ELSE Atom("alpha", "", 1, Unbounded)>> \o Tokens[s, AlphaRunEnd[s, i]]
    ELSE IF IsDigit(s[i + 1]) THEN
        <<IF \/ (i > 0 /\ s[i] = ":")
             \/ (DigitRunEnd[s, i] < Len(s) /\ s[DigitRunEnd[s, i] + 1] = ":")
          THEN Atom("digit", "", 1, 2)
          ELSE Atom("digit", "", 1, 4)>> \o Tokens[s, DigitRunEnd[s, i]]
    ELSE IF s[i + 1] = "." THEN
        <<Atom("lit", ".", 1, 1), Atom("digit", "", 1, 9)>> \o Tokens[s, i + 1]
    ELSE <<escape_lit(s[i + 1])>> \o Tokens[s, i + 1]

\* lines 71-72
DropLeadingBracket[s \in Str] == IF s # <<>> /\ s[1] = "[" THEN Tail(s) ELSE s
\* lines 73-74
DropTrailingBracket[s \in Str] ==
    IF s # <<>> /\ s[Len(s)] = "]" THEN SubSeq(s, 1, Len(s) - 1) ELSE s

\* lines 70-74: the example without padding and without one leading "[" and
\* one trailing "]"
ExampleCore[ex \in Str] == DropTrailingBracket[DropLeadingBracket[Strip[ex]]]

\* the core of the compiled matcher \[?(core)\]?
build_regex_from_example[ex \in Str] == Tokens[ExampleCore[ex], 0]

(***************************************************************************)
(* PatternLearner harness: learn a matcher from an example of the token    *)
(* grammar, then search the example with it (Extractor.extract, attempt 1).*)
(***************************************************************************)
PLAlphabet == {"1", ":", ".", "a", " ", "-"}

RECURSIVE StringsUpTo(_, _)
StringsUpTo(A, n) ==
    IF n = 0 THEN {<<>>}
    ELSE StringsUpTo(A, n - 1) \cup
         {Append(s, c) : s \in {t \in StringsUpTo(A, n - 1) : Len(t) = n - 1}, c \in A}

\* token grammar: a dot stands between digits, no padding, at least one token
InGrammar(s) ==
    /\ s # <<>>
    /\ ~IsSpace(s[1])
    /\ ~IsSpace(s[Len(s)])
    /\ \A i \in 1..Len(s) :
          s[i] = "." => (i > 1 /\ IsDigit(s[i - 1]) /\ i < Len(s) /\ IsDigit(s[i + 1]))

GrammarCores == {s \in StringsUpTo(PLAlphabet, MaxExampleLen) : InGrammar(s)}
GrammarExamples == GrammarCores \cup {<<"[">> \o s \o <<"]">> : s \in GrammarCores}

PLInit ==
    /\ example \in GrammarExamples
    /\ pl_pat = None
    /\ pl_match = None
    /\ pl_pc = "init"

PLBuild ==
    /\ pl_pc = "init"
    /\ pl_pat' = Some(build_regex_from_example[example])
    /\ pl_pc' = "built"
    /\ UNCHANGED <<example, pl_match>>

PLSearch ==
    /\ pl_pc = "built"
    /\ pl_match' = SearchGroup[pl_pat[1], example]
    /\ pl_pc' = "searched"
    /\ UNCHANGED <<example, pl_pat>>

(***************************************************************************)
(* Points in time.  A datetime is [d, s, us]: days since 1970-01-01,       *)
(* seconds of the day, microseconds.  The local time zone is taken as UTC. *)
(***************************************************************************)
DT == [d : Int, s : Int, us : Int]
OptDT == Seq(DT)
OptDay == Seq(Int)

DateTime(d_, s_, us_) == [d |-> d_, s |-> s_, us |-> us_]

DtLess[a \in DT, b \in DT] ==
    \/ a.d < b.d
    \/ a.d = b.d /\ a.s < b.s
    \/ a.d = b.d /\ a.s = b.s /\ a.us < b.us
DtLeq[a \in DT, b \in DT] == a = b \/ DtLess[a, b]

IsLeap(y) == (y % 4 = 0 /\ y % 100 # 0) \/ y % 400 = 0
DaysInMonth(y, m) ==
    IF m = 2 THEN (IF IsLeap(y) THEN 29 ELSE 28)
    ELSE IF m \in {4, 6, 9, 11} THEN 30 ELSE 31
ValidDate[y \in Int, m \in Int, dd \in Int] ==
    y \in 1..9999 /\ m \in 1..12 /\ dd \in 1..DaysInMonth(y, m)

\* date(y, m, dd).toordinal() - date(1970, 1, 1).toordinal()
DayNumber[y \in Int, m \in Int, dd \in Int] ==
    LET yy == IF m <= 2 THEN y - 1 ELSE y
        era == yy \div 400
        yoe == yy - era * 400
        mp == IF m > 2 THEN m - 3 ELSE m + 9
        doy == (153 * mp + 2) \div 5 + dd - 1
        doe == yoe * 365 + yoe \div 4 - yoe \div 100 + doy
    IN  era * 146097 + doe - 719468

\* datetime.fromtimestamp
FromTimestamp[secs \in Int, us_ \in Int] == DateTime(secs \div 86400, secs % 86400, us_)

\* datetime.combine(date_anchor, dt.time())
Combine[anchor \in Int, dt \in DT] == DateTime(anchor, dt.s, dt.us)

\* value without the final newline EPOCH_RE's `$` tolerates
EpochBody[value \in Str] ==
    IF value # <<>> /\ value[Len(value)] = "\n"
    THEN SubSeq(value, 1, Len(value) - 1) ELSE value

\* src/tfind.py:36-45.  A 13-digit value read as seconds (14 characters
\* with the newline) is out of datetime's range and yields None.
parse_epoch[value \in Str] ==
    IF ~(AllDigits(EpochBody[value]) /\ Len(EpochBody[value]) \in {10, 13}) THEN None
    ELSE IF Len(value) = 13
         THEN Some(FromTimestamp[ToInt[SubSeq(value, 1, 10)],
                                 ToInt[SubSeq(value, 11, 13)] * 1000])
    ELSE IF Len(EpochBody[value]) = 10 THEN Some(FromTimestamp[ToInt[EpochBody[value]], 0])
    ELSE None

(***************************************************************************)
(* dateutil.parser.parse, the library behind src/tfind.py:54 and 132, on   *)
(* the shapes the modelled bounds and extracted texts take:                *)
(*   H:MM:SS            the default date (today) at that time              *)
(*   Y-M-D H:MM:SS      Y of 3 or 4 digits is the literal year             *)
(*   a 3-4 digit number that year, today's month and day, midnight         *)
(* Any other text, and any out-of-range field, is a parse error.           *)
(***************************************************************************)
ClockShape == <<Atom("digit", "", 1, 2), Atom("lit", ":", 1, 1), Atom("digit", "", 2, 2),
                Atom("lit", ":", 1, 1), Atom("digit", "", 2, 2)>>
DateShape == <<Atom("digit", "", 3, 4), Atom("lit", "-", 1, 1), Atom("digit", "", 1, 2),
               Atom("lit", "-", 1, 1), Atom("digit", "", 1, 2), Atom("space", "", 1, Unbounded)>>

\* the numbers of s, split at the characters that are not digits
NumFields[s \in Str, i \in Nat] ==
    IF i >= Len(s) THEN <<>>
    ELSE IF IsDigit(s[i + 1])
         THEN <<ToInt[Slice(s, i, DigitRunEnd[s, i])]>> \o NumFields[s, DigitRunEnd[s, i]]
         ELSE NumFields[s, i + 1]

ClockSeconds[h \in Int, m \in Int, sec \in Int] ==
    IF h \in 0..23 /\ m \in 0..59 /\ sec \in 0..59 THEN Some(h * 3600 + m * 60 + sec) ELSE None

\* a date and a time of day put together, None when either is out of range
MakeDateTime[y \in Int, m \in Int, dd \in Int, secs \in Seq(Int)] ==
    IF secs = None \/ ~ValidDate[y, m, dd] THEN None
    ELSE Some(DateTime(DayNumber[y, m, dd], secs[1], 0))

DateutilFields[text \in Str, n \in Seq(Int)] ==
    IF MatchAtoms[ClockShape, 1, text, 1] = Len(text) + 1 THEN
        MakeDateTime[today.y, today.m, today.d, ClockSeconds[n[1], n[2], n[3]]]
    ELSE IF MatchAtoms[DateShape \o ClockShape, 1, text, 1] = Len(text) + 1 THEN
        MakeDateTime[n[1], n[2], n[3], ClockSeconds[n[4], n[5], n[6]]]
    ELSE IF AllDigits(text) /\ Len(text) \in 3..4 THEN
        MakeDateTime[n[1], today.m, today.d, Some(0)]
    ELSE None

dateutil_parse[text \in Str] == DateutilFields[text, NumFields[text, 0]]

\* src/tfind.py:47-56
parse_user_datetime[value \in Str] ==
    IF parse_epoch[value] # None THEN parse_epoch[value]
    ELSE IF ~dateutil_parser THEN None
    ELSE dateutil_parse[value]

\* lines 135-142: the parsed value dt, put on the anchor date when the text
\* names no date
AnchorSubstitution[ts_text \in Str, anchor \in OptDay, dt \in OptDT] ==
    LET lacks_date == ~HasYear[ts_text] /\ ~HasDayMonth[ts_text] /\ ~MONTH_RE_search[ts_text]
    IN  IF dt = None THEN None
        ELSE IF lacks_date /\ anchor # None THEN Some(Combine[anchor[1], dt[1]])
        ELSE dt

\* src/tfind.py:125-142
parse_line_timestamp[ts_text \in Str, anchor \in OptDay] ==
    IF parse_epoch[ts_text] # None THEN parse_epoch[ts_text]
    ELSE IF ~dateutil_parser THEN None
    ELSE AnchorSubstitution[ts_text, anchor, dateutil_parse[ts_text]]

(***************************************************************************)
(* TimestampExtractor, src/tfind.py:107-123.  pat is the optional learned  *)
(* matcher; the result is the candidate text, <<>> for None.               *)
(***************************************************************************)
ContextWindow == 40

\* lines 116-123: the generic clock-time heuristic and the whole-line fallback,
\* m the span of TIME_CORE_RE (m.start() = m[1] - 1, m.end() = m[2] - 1)
ExtractGeneric[line \in Str, m \in Seq(Nat)] ==
    IF m # <<>> THEN
        Strip[Slice(line, Max({0, m[1] - 1 - ContextWindow}),
                          Min({Len(line), m[2] - 1 + ContextWindow}))]
    ELSE IF dateutil_parser /\ \E i \in 1..Len(line) : IsDigit(line[i]) THEN line
    ELSE None

\* lines 112-115, g the span of group 1 of user_pattern.search(line)
ExtractLearned[line \in Str, g \in Seq(Nat)] ==
    IF g # <<>> THEN SubSeq(line, g[1], g[2] - 1)
    ELSE ExtractGeneric[line, TIME_CORE_RE_search[line]]

extract[pat \in Seq(Pattern), line \in Str] ==
    IF pat # None THEN ExtractLearned[line, SearchFrom[pat[1], line, 1]]
    ELSE ExtractGeneric[line, TIME_CORE_RE_search[line]]

\* `parse_line_timestamp(ts_text, date_anchor) if ts_text else None`
ParseCandidate[ts_text \in Str, anchor \in OptDay] ==
    IF ts_text # <<>> THEN parse_line_timestamp[ts_text, anchor] ELSE None

\* the pair the search and the stream compute for a line: extract, then parse
LineTimestamp[pat \in Seq(Pattern), anchor \in OptDay, line \in Str] ==
    ParseCandidate[extract[pat, line], anchor]

(***************************************************************************)
(* The file.                                                               *)
(***************************************************************************)
file_size == Len(file)

\* the offset after f.seek(p); f.readline()
ReadlineEnd[p \in Nat] ==
    IF p >= Len(file) THEN p
    ELSE IF file[p + 1] = "\n" THEN p + 1
    ELSE ReadlineEnd[p + 1]

\* the bytes f.readline() returns at offset p (empty at end of file)
Readline[p \in Nat] == Slice(file, p, ReadlineEnd[p])

\* DateAnchorResolver, src/tfind.py:149-164
AnchorScanCap == 2000

\* lines 156-161 for one line: the anchor date it gives, or None
AnchorOfLine[pat \in Seq(Pattern), line \in Str] ==
    IF LineTimestamp[pat, None, line] # None
    THEN Some(LineTimestamp[pat, None, line][1].d)
    ELSE None

\* the loop of lines 152-161: n lines left to read from offset p
AnchorScan[pat \in Seq(Pattern), p \in Nat, n \in Nat] ==
    IF n = 0 \/ Readline[p] = <<>> THEN None
    ELSE IF AnchorOfLine[pat, Readline[p]] # None THEN AnchorOfLine[pat, Readline[p]]
    ELSE AnchorScan[pat, ReadlineEnd[p], n - 1]

find_first_date_anchor[pat \in Seq(Pattern)] == AnchorScan[pat, 0, AnchorScanCap]

(***************************************************************************)
(* Inputs of the model: log files of dated lines or of epoch lines,        *)
(* possibly unsorted and with lines that carry no timestamp, and bounds    *)
(* that are time-only, absolute, epoch, reversed or unparsable.            *)
(***************************************************************************)
Str2(n) == <<Digits[(n \div 10) + 1], Digits[(n % 10) + 1]>>

DateText(day) == <<"2", "0", "2", "4", "-", "0", "1", "-">> \o Str2(day)
ClockText(sec) == <<"1", "0", ":", "0", "0", ":">> \o Str2(sec)
EpochText(k) == <<"1", "7", "0", "0", "0", "0", "0">> \o <<Digits[(k \div 100) + 1]>> \o Str2(k % 100)

Tag(i) == <<UpperLetters[i]>>

\* a line descriptor is <<"dated", day, sec>>, <<"epoch", k>> or <<"junk">>
LineText(l, i) ==
    CASE l[1] = "dated" -> DateText(l[2]) \o <<" ">> \o ClockText(l[3]) \o <<" ">> \o Tag(i) \o <<"\n">>
      [] l[1] = "epoch" -> EpochText(l[2]) \o <<" ">> \o Tag(i) \o <<"\n">>
      [] OTHER -> <<"x", "\n">>

RECURSIVE FileText(_, _)
FileText(ls, i) ==
    IF i > Len(ls) THEN <<>> ELSE LineText(ls[i], i) \o FileText(ls, i + 1)

DatedLines == {<<"dated", 1, 0>>, <<"dated", 1, 5>>, <<"dated", 1, 10>>, <<"dated", 2, 5>>,
               <<"junk">>}
EpochLines == {<<"epoch", 50>>, <<"epoch", 150>>, <<"junk">>}

LineSeqs(pool) == UNION {[1..n -> pool] : n \in 0..MaxLines}

DatedFiles == {FileText(ls, 1) : ls \in LineSeqs(DatedLines)}
EpochFiles == {FileText(ls, 1) : ls \in LineSeqs(EpochLines)}

Garbage == <<"z", "z">>
DatedBounds ==
    {<<ClockText(3), ClockText(8)>>,
     <<ClockText(8), ClockText(3)>>,
     <<DateText(1) \o <<" ">> \o ClockText(3), DateText(1) \o <<" ">> \o ClockText(8)>>,
     <<DateText(1) \o <<" ">> \o ClockText(8), ClockText(3)>>,
     <<ClockText(3), DateText(2) \o <<" ">> \o ClockText(8)>>,
     <<Garbage, ClockText(8)>>,
     <<ClockText(3), Garbage>>}
EpochBounds ==
    {<<EpochText(0), EpochText(100)>>,
     <<EpochText(100), EpochText(0)>>}

\* the run takes place before or after the dates of the file
Todays == {[y |-> 2023, m |-> 12, d |-> 31], [y |-> 2024, m |-> 3, d |-> 5]}

RunInit ==
    /\ \/ \E f \in DatedFiles, b \in DatedBounds :
             file = f /\ start_s = b[1] /\ end_s = b[2]
       \/ \E f \in EpochFiles, b \in EpochBounds :
             file = f /\ start_s = b[1] /\ end_s = b[2]
    /\ dateutil_parser \in BOOLEAN
    /\ today \in Todays
    /\ pc = "start"
    /\ start_dt = None
    /\ end_dt = None
    /\ user_pat = None
    /\ date_anchor = None
    /\ low = 0
    /\ hi = 0
    /\ bs_iter = "none"
    /\ start_pos = 0 - 1
    /\ fpos = 0 - 1
    /\ out = <<>>
    /\ err = <<>>
    /\ exit_code = 0 - 1
    /\ stop_cause = "none"

(***************************************************************************)
(* print_range, src/tfind.py:190-234.                                      *)
(***************************************************************************)
\* ParseBounds with the exit taken only when both bounds fail to parse
ParseBounds_ExitOnlyIfBothFail ==
    /\ pc = "start"
    /\ \E s \in {parse_user_datetime[start_s]}, e \in {parse_user_datetime[end_s]} :
           IF s = None /\ e = None
           THEN /\ pc' = "fatal"
                /\ err' = <<"Error: could not parse <start> or <end>.">>
                /\ exit_code' = 1
                /\ start_dt' = s
                /\ end_dt' = e
           ELSE /\ pc' = "parsed"
                /\ IF s # None /\ e # None /\ DtLess[e[1], s[1]]
                   THEN start_dt' = e /\ end_dt' = s
                   ELSE start_dt' = s /\ end_dt' = e
                /\ UNCHANGED <<err, exit_code>>
    /\ UNCHANGED <<file, start_s, end_s, dateutil_parser, today, user_pat, date_anchor,
                   low, hi, bs_iter, start_pos, fpos, out, stop_cause, plVars>>

\* lines 191-196: parse both bounds, exit on failure, swap reversed bounds
ParseBounds ==
    /\ pc = "start"
    /\ \E s \in {parse_user_datetime[start_s]}, e \in {parse_user_datetime[end_s]} :
           IF s = None \/ e = None
           THEN /\ pc' = "fatal"
                /\ err' = <<"Error: could not parse <start> or <end>.">>
                /\ exit_code' = 1
                /\ start_dt' = s
                /\ end_dt' = e
           ELSE /\ pc' = "parsed"
                /\ IF DtLess[e[1], s[1]]
                   THEN start_dt' = e /\ end_dt' = s
                   ELSE start_dt' = s /\ end_dt' = e
                /\ UNCHANGED <<err, exit_code>>
    /\ UNCHANGED <<file, start_s, end_s, dateutil_parser, today, user_pat, date_anchor,
                   low, hi, bs_iter, start_pos, fpos, out, stop_cause, plVars>>

\* lines 197-206: learn the matcher from the bound that is not time-only
LearnPattern ==
    /\ pc = "parsed"
    /\ LET exemplar == IF ~input_is_time_only[start_s] \/ ~input_is_time_only[end_s]
                       THEN (IF ~input_is_time_only[start_s] THEN start_s ELSE end_s)
                       ELSE start_s
       IN  user_pat' = Some(build_regex_from_example[exemplar])
    /\ pc' = "pattern_learned"
    /\ UNCHANGED <<file, start_s, end_s, dateutil_parser, today, start_dt, end_dt,
                   date_anchor, low, hi, bs_iter, start_pos, fpos, out, err, exit_code,
                   stop_cause, plVars>>

\* lines 207-213: resolve the anchor date when a bound is time-only and put
\* the time-only bounds on it
ResolveAnchor ==
    /\ pc = "pattern_learned"
    /\ \E need_anchor \in {input_is_time_only[start_s] \/ input_is_time_only[end_s]} :
       \E anchor \in {IF need_anchor THEN find_first_date_anchor[user_pat] ELSE None} :
           /\ date_anchor' = anchor
           /\ pc' = IF need_anchor THEN "anchor_resolved" ELSE "anchor_skipped"
           /\ start_dt' = IF need_anchor /\ anchor # None /\ input_is_time_only[start_s]
                          THEN Some(Combine[anchor[1], start_dt[1]]) ELSE start_dt
           /\ end_dt' = IF need_anchor /\ anchor # None /\ input_is_time_only[end_s]
                        THEN Some(Combine[anchor[1], end_dt[1]]) ELSE end_dt
    /\ UNCHANGED <<file, start_s, end_s, dateutil_parser, today, user_pat, low, hi,
                   bs_iter, start_pos, fpos, out, err, exit_code, stop_cause, plVars>>

(***************************************************************************)
(* binary_search_start, src/tfind.py:166-188, called with target start_dt. *)
(***************************************************************************)
\* lines 167-169
BinarySearchEnter ==
    /\ pc \in {"anchor_resolved", "anchor_skipped"}
    /\ low' = 0
    /\ hi' = file_size
    /\ pc' = "searching"
    /\ UNCHANGED <<file, start_s, end_s, dateutil_parser, today, start_dt, end_dt,
                   user_pat, date_anchor, bs_iter, start_pos, fpos, out, err, exit_code,
                   stop_cause, plVars>>

\* BinarySearchBody with `low = mid` in place of `low = pos + 1`
BinarySearchBody_LowIsMid(lo_, hi_, target) ==
    LET mid == (lo_ + hi_) \div 2
        pos == ReadlineEnd[mid]
        line == Readline[pos]
    IN  IF line = <<>> THEN <<"break", lo_, hi_>>
        ELSE IF \E ts \in {LineTimestamp[user_pat, date_anchor, line]} :
                   ts = None \/ DtLess[ts[1], target] THEN <<"raise_low", mid, hi_>>
        ELSE <<"lower_hi", lo_, mid>>

\* BinarySearchBody with `low = f.tell() + 1`, the position after the line
\* read, in place of `low = pos + 1`
BinarySearchBody_LowPastLine(lo_, hi_, target) ==
    LET mid == (lo_ + hi_) \div 2
        pos == ReadlineEnd[mid]
        line == Readline[pos]
    IN  IF line = <<>> THEN <<"break", lo_, hi_>>
        ELSE IF \E ts \in {LineTimestamp[user_pat, date_anchor, line]} :
                   ts = None \/ DtLess[ts[1], target]
             THEN <<"raise_low", ReadlineEnd[pos] + 1, hi_>>
        ELSE <<"lower_hi", lo_, mid>>

\* what one iteration assigns: <<tag, low, hi>>
BinarySearchBody(lo_, hi_, target) ==
    LET mid == (lo_ + hi_) \div 2
        pos == ReadlineEnd[mid]
        line == Readline[pos]
    IN  IF line = <<>> THEN <<"break", lo_, hi_>>
        ELSE IF \E ts \in {LineTimestamp[user_pat, date_anchor, line]} :
                   ts = None \/ DtLess[ts[1], target] THEN <<"raise_low", pos + 1, hi_>>
        ELSE <<"lower_hi", lo_, mid>>

\* lines 170-187: one iteration of the loop; the break returns low
BinarySearchStep ==
    /\ pc = "searching"
    /\ low < hi
    /\ \E r \in {BinarySearchBody(low, hi, start_dt[1])} :
           /\ bs_iter' = r[1]
           /\ low' = r[2]
           /\ hi' = r[3]
           /\ IF r[1] = "break"
              THEN pc' = "located" /\ start_pos' = low
              ELSE pc' = "searching" /\ UNCHANGED start_pos
    /\ UNCHANGED <<file, start_s, end_s, dateutil_parser, today, start_dt, end_dt,
                   user_pat, date_anchor, fpos, out, err, exit_code, stop_cause, plVars>>

\* lines 170 and 188: the loop condition fails, return low (line 214)
BinarySearchReturn ==
    /\ pc = "searching"
    /\ ~(low < hi)
    /\ start_pos' = low
    /\ pc' = "located"
    /\ UNCHANGED <<file, start_s, end_s, dateutil_parser, today, start_dt, end_dt,
                   user_pat, date_anchor, low, hi, bs_iter, fpos, out, err, exit_code,
                   stop_cause, plVars>>

(***************************************************************************)
(* RangeStreamer, src/tfind.py:215-234.  Highlighting needs an interactive *)
(* standard output and is off.                                             *)
(***************************************************************************)
\* lines 216-217
StreamOpen ==
    /\ pc = "located"
    /\ fpos' = start_pos
    /\ pc' = "streaming"
    /\ UNCHANGED <<file, start_s, end_s, dateutil_parser, today, start_dt, end_dt,
                   user_pat, date_anchor, low, hi, bs_iter, start_pos, out, err,
                   exit_code, stop_cause, plVars>>

\* StreamVerdict with `continue` in place of `break` on a line after end
StreamVerdict_NoBreak(ts_text, ts, s, e) ==
        IF ts_text = <<>> THEN "skip_unextractable"
        ELSE IF ts = None THEN "skip_unparsable"
        ELSE IF DtLess[e, ts[1]] THEN "skip_after"
        ELSE IF DtLeq[s, ts[1]] /\ DtLeq[ts[1], e] THEN "emit"
        ELSE "skip_before"

\* lines 225-233: what the loop body does with a line whose extracted text is
\* ts_text and whose parsed timestamp is ts: skip it, break, or emit it
StreamVerdict(ts_text, ts, s, e) ==
        IF ts_text = <<>> THEN "skip_unextractable"
        ELSE IF ts = None THEN "skip_unparsable"
        ELSE IF DtLess[e, ts[1]] THEN "break"
        ELSE IF DtLeq[s, ts[1]] /\ DtLeq[ts[1], e] THEN "emit"
        ELSE "skip_before"

\* lines 218-234: one iteration of `for raw in f`
StreamLine ==
    /\ pc = "streaming"
    /\ Readline[fpos] # <<>>
    /\ \E raw \in {Readline[fpos]} :
       \E ts_text \in {extract[user_pat, raw]} :
       \E ts \in {ParseCandidate[ts_text, date_anchor]} :
       \E v \in {StreamVerdict(ts_text, ts, start_dt[1], end_dt[1])} :
           /\ out' = IF v = "emit" THEN Append(out, [pos |-> fpos, text |-> raw]) ELSE out
           /\ fpos' = ReadlineEnd[fpos]
           /\ IF v = "break"
              THEN pc' = "done" /\ stop_cause' = "past_end" /\ exit_code' = 0
              ELSE pc' = "streaming" /\ UNCHANGED <<stop_cause, exit_code>>
    /\ UNCHANGED <<file, start_s, end_s, dateutil_parser, today, start_dt, end_dt,
                   user_pat, date_anchor, low, hi, bs_iter, start_pos, err, plVars>>

\* line 218: the file is exhausted
StreamEnd ==
    /\ pc = "streaming"
    /\ Readline[fpos] = <<>>
    /\ pc' = "done"
    /\ stop_cause' = "eof"
    /\ exit_code' = 0
    /\ UNCHANGED <<file, start_s, end_s, dateutil_parser, today, start_dt, end_dt,
                   user_pat, date_anchor, low, hi, bs_iter, start_pos, fpos, out, err,
                   plVars>>

PLIdle ==
    /\ example = <<>>
    /\ pl_pat = None
    /\ pl_match = None
    /\ pl_pc = "idle"

Init == RunInit /\ PLIdle

Next ==
    \/ ParseBounds
    \/ LearnPattern
    \/ ResolveAnchor
    \/ BinarySearchEnter
    \/ BinarySearchStep
    \/ BinarySearchReturn
    \/ StreamOpen
    \/ StreamLine
    \/ StreamEnd

Spec == Init /\ [][Next]_vars

\* the run is single-threaded and blocking: every enabled step is taken
FairSpec == Spec /\ WF_vars(Next)

\* the PatternLearner harness on its own, the run not started
RunIdle ==
    /\ file = <<>>
    /\ start_s = <<>>
    /\ end_s = <<>>
    /\ dateutil_parser = TRUE
    /\ today \in Todays
    /\ pc = "idle"
    /\ start_dt = None
    /\ end_dt = None
    /\ user_pat = None
    /\ date_anchor = None
    /\ low = 0
    /\ hi = 0
    /\ bs_iter = "none"
    /\ start_pos = 0 - 1
    /\ fpos = 0 - 1
    /\ out = <<>>
    /\ err = <<>>
    /\ exit_code = 0 - 1
    /\ stop_cause = "none"

PLNext ==
    \/ PLBuild /\ UNCHANGED runVars
    \/ PLSearch /\ UNCHANGED runVars

PLStart == PLInit /\ RunIdle

PLSpec == PLStart /\ [][PLNext]_vars

(***************************************************************************)
(* Vocabulary of the properties.                                           *)
(***************************************************************************)
\* the offsets at which a line of the file begins
LineStarts == {p \in 0..(Len(file) - 1) : p = 0 \/ file[p] = "\n"}

\* the timestamp the run's extractor and parser give the line beginning at p
TsAt(p) == LineTimestamp[user_pat, date_anchor, Readline[p]]

\* every line carries a timestamp and the timestamps ascend with the offsets
SortedFile ==
    /\ \A p \in LineStarts : TsAt(p) # None
    /\ \A p, q \in LineStarts : p < q => DtLeq[TsAt(p)[1], TsAt(q)[1]]

\* the start of the line that ends where the line at p begins
PrevLineStart(p) == Max({q \in LineStarts : q < p})

\* the offset of the first line whose timestamp is >= start, the file size
\* when there is none
FirstAtOrAfterStart ==
    Min({p \in LineStarts : TsAt(p) # None /\ DtLeq[start_dt[1], TsAt(p)[1]]} \cup {file_size})

\* the offsets of the lines written to standard output
Emitted == {out[i].pos : i \in 1..Len(out)}

\* the offsets at which the streaming pass has read a line so far
ChunksRead == {c \in 0..(Len(file) - 1) :
                  /\ fpos >= 0 /\ start_pos <= c /\ c < fpos
                  /\ (c = start_pos \/ file[c] = "\n")}

\* the line read at c parses to a timestamp strictly after end
PastEnd(c) ==
    LET ts == LineTimestamp[user_pat, date_anchor, Readline[c]]
    IN  ts # None /\ DtLess[end_dt[1], ts[1]]

\* the line read at c parses to a timestamp inside [start, end]
InWindow(c) ==
    LET ts == LineTimestamp[user_pat, date_anchor, Readline[c]]
    IN  ts # None /\ DtLeq[start_dt[1], ts[1]] /\ DtLeq[ts[1], end_dt[1]]

BoundsParse == parse_user_datetime[start_s] # None /\ parse_user_datetime[end_s] # None

(***************************************************************************)
(* C1.  On a file sorted by ascending extracted timestamp, the offset o    *)
(* that binary_search_start returns begins a line whose timestamp is       *)
(* >= start, and if o > 0 the line just before it has a timestamp < start. *)
(* Stated for the runs in which o is the start of a line.                  *)
(***************************************************************************)
C1_LocatorContract ==
    (pc = "located" /\ SortedFile /\ start_pos \in LineStarts) =>
        /\ DtLeq[start_dt[1], TsAt(start_pos)[1]]
        /\ start_pos > 0 => DtLess[TsAt(PrevLineStart(start_pos))[1], start_dt[1]]

(***************************************************************************)
(* C4.  When the start bound or the end bound parses under no strategy,    *)
(* the run is in the fatal state as soon as it has left its first step:    *)
(* exit status non-zero, an error message, nothing on standard output, and *)
(* no pattern learned, no anchor resolved, no search and no stream begun.  *)
(***************************************************************************)
C4_UnparsableBoundIsFatal ==
    (pc # "start" /\ ~BoundsParse) =>
        /\ pc = "fatal"
        /\ exit_code > 0
        /\ err # <<>>
        /\ out = <<>>
        /\ user_pat = None
        /\ date_anchor = None
        /\ bs_iter = "none"
        /\ start_pos < 0
        /\ fpos < 0

\* a run with one good and one bad bound has ended fatally
C4_Witness ==
    /\ pc = "fatal"
    /\ parse_user_datetime[start_s] # None
    /\ parse_user_datetime[end_s] = None
    /\ dateutil_parser

(***************************************************************************)
(* C6.  Early stop: a line read by the streaming pass whose timestamp is   *)
(* strictly after end is the last line read, the run is over and every     *)
(* emitted line precedes it; and the pass stops short of the end of the    *)
(* file only for such a line, never for an unparsable line or a line       *)
(* before start.                                                           *)
(***************************************************************************)
C6_EarlyStop ==
    (pc \in {"streaming", "done"}) =>
        /\ \A c \in ChunksRead :
              PastEnd(c) => /\ pc = "done"
                            /\ ReadlineEnd[c] = fpos
                            /\ \A e \in Emitted : e < c
        /\ (pc = "done" /\ fpos < file_size) => \E c \in ChunksRead : PastEnd(c)

\* an unsorted file: the pass read on past a line it did not emit (no
\* timestamp, or before start), stopped at a line after end, and a later line
\* lies in the window
C6_Witness ==
    /\ pc = "done"
    /\ stop_cause = "past_end"
    /\ \E c \in ChunksRead : ~PastEnd(c) /\ c \notin Emitted
    /\ \E p \in LineStarts : p >= fpos /\ InWindow(p)

(***************************************************************************)
(* C7.  SearchWindow invariant: on a sorted file, at every iteration of    *)
(* the binary search, every line starting before low has a timestamp       *)
(* < target and every line starting at or after hi has a timestamp         *)
(* >= target or none.                                                      *)
(***************************************************************************)
C7_SearchWindow ==
    (pc = "searching" /\ SortedFile) =>
        /\ \A p \in LineStarts : p < low => DtLess[TsAt(p)[1], start_dt[1]]
        /\ \A p \in LineStarts : p >= hi => DtLeq[start_dt[1], TsAt(p)[1]]

(***************************************************************************)
(* C8.  The offset binary_search_start returns is the start of a complete  *)
(* line: offset 0 or the byte right after a line terminator.               *)
(***************************************************************************)
C8_ReturnsLineStart ==
    pc = "located" => (start_pos = 0 \/ file[start_pos] = "\n")

(***************************************************************************)
(* C9.  The binary search terminates: every iteration exits the loop,      *)
(* strictly raises low or strictly lowers hi, so the window shrinks, and   *)
(* a search that has begun returns.                                        *)
(***************************************************************************)
C9_SearchTerminates ==
    /\ [][(pc = "searching" /\ low < hi) =>
            \/ pc' = "located" /\ low' = low /\ hi' = hi
            \/ pc' = "searching" /\ low' > low /\ hi' = hi
            \/ pc' = "searching" /\ hi' < hi /\ low' = low]_vars
    /\ (pc = "searching") ~> (pc = "located")

\* a search that raised low, lowered hi and returned on a file of three lines
C9_Witness ==
    /\ pc = "located"
    /\ 0 < low
    /\ hi < file_size
    /\ Cardinality(LineStarts) >= 3

(***************************************************************************)
(* C10.  On a sorted file whose lines all carry a timestamp, the offset    *)
(* returned by binary_search_start is never beyond the start of the first  *)
(* line whose timestamp is >= start, so that at the end of the run every   *)
(* line with a timestamp in [start, end] has been emitted.                 *)
(***************************************************************************)
C10_NothingSkipped ==
    (pc \in {"located", "streaming", "done"} /\ SortedFile) =>
        /\ start_pos <= FirstAtOrAfterStart
        /\ pc = "done" => \A p \in LineStarts : InWindow(p) => p \in Emitted

\* a sorted file of three lines: the search raised low into the file and the
\* pass that began there emitted a line
C10_Witness ==
    /\ pc = "done"
    /\ SortedFile
    /\ Cardinality(LineStarts) >= 3
    /\ start_pos > 0
    /\ Emitted # {}

(***************************************************************************)
(* C2.  With two time-only bounds and a file whose first absolute          *)
(* timestamp has date D, the run outputs exactly the lines dated D whose   *)
(* time of day lies in the inclusive window of the bounds; no line of      *)
(* another date is emitted.  Stated for files sorted by the absolute       *)
(* timestamp every line carries.                                           *)
(***************************************************************************)
\* the absolute timestamp written at the head of a dated line
AbsoluteStamp[line \in Str] ==
    IF Len(line) >= Len(DateText(1)) + 1 + Len(ClockText(0))
    THEN dateutil_parse[SubSeq(line, 1, Len(DateText(1)) + 1 + Len(ClockText(0)))]
    ELSE None

StampAt(p) == AbsoluteStamp[Readline[p]]

SortedByStamp ==
    /\ LineStarts # {}
    /\ \A p \in LineStarts : StampAt(p) # None
    /\ \A p, q \in LineStarts : p < q => DtLeq[StampAt(p)[1], StampAt(q)[1]]

\* the time of day a time-only bound names
BoundSeconds(b) == parse_user_datetime[b][1].s

C2_AnchorWindow ==
    (pc = "done" /\ input_is_time_only[start_s] /\ input_is_time_only[end_s] /\ SortedByStamp) =>
        Emitted = {p \in LineStarts :
                      /\ StampAt(p)[1].d = StampAt(0)[1].d
                      /\ StampAt(p)[1].s >= Min({BoundSeconds(start_s), BoundSeconds(end_s)})
                      /\ StampAt(p)[1].s <= Max({BoundSeconds(start_s), BoundSeconds(end_s)})}

(***************************************************************************)
(* C3.  With two 10-digit epoch bounds and a file of lines that begin with *)
(* a 10-digit epoch timestamp, in ascending order, the run outputs exactly *)
(* the lines whose epoch second lies between the bounds, inclusive.        *)
(***************************************************************************)
\* the epoch timestamp written at the head of a line
EpochStamp[line \in Str] ==
    IF Len(line) >= Len(EpochText(0)) THEN parse_epoch[SubSeq(line, 1, Len(EpochText(0)))]
    ELSE None

EpochAt(p) == EpochStamp[Readline[p]]

SortedByEpoch ==
    /\ LineStarts # {}
    /\ \A p \in LineStarts : EpochAt(p) # None
    /\ \A p, q \in LineStarts : p < q => DtLeq[EpochAt(p)[1], EpochAt(q)[1]]

C3_EpochWindow ==
    (pc = "done" /\ parse_epoch[start_s] # None /\ parse_epoch[end_s] # None /\ SortedByEpoch) =>
        Emitted = {p \in LineStarts :
                      /\ DtLeq[start_dt[1], EpochAt(p)[1]]
                      /\ DtLeq[EpochAt(p)[1], end_dt[1]]}

(***************************************************************************)
(* C5.  PatternLearner round trip: the matcher learned from an example of  *)
(* the token grammar matches that example, its group spanning the whole    *)
(* timestamp (the example without its enclosing brackets).                 *)
(***************************************************************************)
C5_RoundTrip ==
    pl_pc = "searched" => pl_match = ExampleCore[example]

(***************************************************************************)
(* C11.  Whenever both bounds parse, the start and end that print_range    *)
(* hands to the binary search and to the streaming filter satisfy          *)
(* start <= end: the order the swap established survives the substitution  *)
(* of the anchor date into the time-only bounds.                           *)
(***************************************************************************)
C11_BoundsOrdered ==
    (pc \in {"searching", "located", "streaming", "done"}) => DtLeq[start_dt[1], end_dt[1]]
====
